---- MODULE Spec2Model ----
(***************************************************************************)
(* Model of the URL shortener page (src/url-shortener/src/App.tsx) and of  *)
(* its logging middleware.  Strings are sequences of one-character        *)
(* strings, so that trim, parseInt, new URL and charAt are computed        *)
(* character by character.  Date.now() is the number of milliseconds since *)
(* the page was loaded.                                                    *)
(***************************************************************************)
EXTENDS Integers, Sequences, FiniteSets, TLC

VARIABLES longUrl, validity, shortUrls, copied, redirectCode, redirectResult,
          logs, clock, copyTimers, event, genExisting, genRolls, genCode

vars == <<longUrl, validity, shortUrls, copied, redirectCode, redirectResult,
          logs, clock, copyTimers, event, genExisting, genRolls, genCode>>

appVars == <<longUrl, validity, shortUrls, copied, redirectCode, redirectResult,
             logs, clock, copyTimers, event>>

genVars == <<genExisting, genRolls, genCode>>

(* ------------------------------ bounds -------------------------------- *)

\* operations that write a log entry in one run
MaxLogs == 2
\* whole minutes the clock may advance
MaxMinutes == 2
\* attempts of the generator's do-while loop that are followed
MaxRolls == 2
\* Math.random() returns k / RandDenom for some k in 0 .. RandDenom - 1
RandDenom == 124

(* ----------------------------- strings -------------------------------- *)

chars == << "a","b","c","d","e","f","g","h","i","j","k","l","m",
            "n","o","p","q","r","s","t","u","v","w","x","y","z",
            "A","B","C","D","E","F","G","H","I","J","K","L","M",
            "N","O","P","Q","R","S","T","U","V","W","X","Y","Z",
            "0","1","2","3","4","5","6","7","8","9" >>

CodeLength == 6

DefaultValidity == 30

CopiedTimeout == 1500

null == <<>>

\* String.prototype.charAt: the character at a 0-based index, "" outside
charAt(s, i) == IF i >= 0 /\ i < Len(s) THEN <<s[i + 1]>> ELSE <<>>

\* mutant: Math.round in place of Math.floor
roundRandomTimes(k, n) == (2 * k * n + RandDenom) \div (2 * RandDenom)

\* Math.floor(Math.random() * n) for Math.random() = k / RandDenom
floorRandomTimes(k, n) == (k * n) \div RandDenom

Digits == << "0","1","2","3","4","5","6","7","8","9" >>

DigitSet == { Digits[i] : i \in 1..10 }

IsDigit(c) == c \in DigitSet

DigitValue(c) == (CHOOSE i \in 1..10 : Digits[i] = c) - 1

IsWhiteSpace(c) == c = " "

RECURSIVE trimStart(_)
trimStart(s) ==
  IF s # <<>> /\ IsWhiteSpace(Head(s)) THEN trimStart(Tail(s)) ELSE s

RECURSIVE trimEnd(_)
trimEnd(s) ==
  IF s # <<>> /\ IsWhiteSpace(s[Len(s)])
  THEN trimEnd(SubSeq(s, 1, Len(s) - 1)) ELSE s

\* String.prototype.trim
trim(s) == trimEnd(trimStart(s))

\* JavaScript truthiness of a string: every string but "" is truthy
Truthy(s) == s # <<>>

(* ----------------------------- parseInt ------------------------------- *)

\* the longest run of decimal digits at the front of s, as a number
RECURSIVE parseDigits(_, _)
parseDigits(s, acc) ==
  IF s # <<>> /\ IsDigit(Head(s))
  THEN parseDigits(Tail(s), acc * 10 + DigitValue(Head(s)))
  ELSE acc

\* parseInt(s, 10): skip leading white space, read an optional sign, then
\* the longest run of digits; NaN when there is no digit at that place.
\* Whatever follows the digits is ignored.
parseInt(s) ==
  LET t    == trimStart(s)
      neg  == t # <<>> /\ Head(t) = "-"
      sgn  == t # <<>> /\ Head(t) \in {"-", "+"}
      body == IF sgn THEN Tail(t) ELSE t
  IN  IF body = <<>> \/ ~IsDigit(Head(body))
      THEN [isNaN |-> TRUE, value |-> 0]
      ELSE [isNaN |-> FALSE,
            value |-> IF neg THEN 0 - parseDigits(body, 0)
                             ELSE parseDigits(body, 0)]

\* const validityMinutes = validity ? parseInt(validity, 10) : 30
validityMinutes(v) ==
  IF Truthy(v) THEN parseInt(v) ELSE [isNaN |-> FALSE, value |-> DefaultValidity]

\* isNaN(validityMinutes) || validityMinutes <= 0
validityRejected(v) == validityMinutes(v).isNaN \/ validityMinutes(v).value <= 0

(* ------------------------------ new URL ------------------------------- *)

AsciiAlpha == { chars[i] : i \in 1..52 }

AsciiUpper == { chars[i] : i \in 27..52 }

AsciiAlphanumeric == { chars[i] : i \in 1..62 }

IsAsciiAlpha(c) == c \in AsciiAlpha

IsSchemeChar(c) == c \in AsciiAlphanumeric \/ c \in {"+", "-", "."}

toLowerCase(c) ==
  IF c \in AsciiUpper
  THEN chars[(CHOOSE i \in 27..52 : chars[i] = c) - 26]
  ELSE c

\* scheme state of the URL parser: read scheme characters up to the first
\* ":"; any other character, or the end of the input, is a failure because
\* there is no base URL.  The position of the ":" is returned, 0 on failure.
RECURSIVE schemeState(_, _)
schemeState(s, i) ==
  IF i > Len(s) THEN 0
  ELSE IF s[i] = ":" THEN i
  ELSE IF IsSchemeChar(s[i]) THEN schemeState(s, i + 1)
  ELSE 0

\* mutant: new URL(text, base), which resolves any text against the base
newURLWithBase(text) == [ok |-> TRUE, href |-> <<"b", ":">> \o trim(text)]

\* new URL(text) without a base, for texts without "/", "?", "#" and with a
\* scheme that is not one of the special ones (http, https, ...): leading
\* and trailing spaces are stripped, the text must start with a scheme, and
\* what follows the ":" is kept as an opaque path.  ok = FALSE stands for
\* the TypeError.  href is what url.toString() returns.
newURL(text) ==
  LET s     == trim(text)
      colon == IF s # <<>> /\ IsAsciiAlpha(s[1]) THEN schemeState(s, 2) ELSE 0
  IN  IF colon = 0
      THEN [ok |-> FALSE, href |-> <<>>]
      ELSE [ok |-> TRUE,
            href |-> [i \in 1..Len(s) |->
                        IF i < colon THEN toLowerCase(s[i]) ELSE s[i]]]

(* --------------------------- generateShortCode ------------------------ *)

\* for (let i = 0; i < 6; i++) code += chars.charAt(Math.floor(Math.random() * chars.length))
\* roll holds the six values of Math.random() of one attempt
RECURSIVE randomCode(_, _, _)
randomCode(roll, i, code) ==
  IF i < CodeLength
  THEN randomCode(roll, i + 1,
                  code \o charAt(chars, floorRandomTimes(roll[i + 1], Len(chars))))
  ELSE code

RECURSIVE doWhile(_, _, _)
doWhile(existing, rolls, k) ==
  LET code == randomCode(rolls[k], 0, <<>>)
  IN  IF code \in existing
      THEN IF k < Len(rolls)
           THEN doWhile(existing, rolls, k + 1)
           ELSE [returned |-> FALSE, code |-> <<>>]
      ELSE [returned |-> TRUE, code |-> code]

\* mutant: the first attempt is returned, the while condition is dropped
generateShortCodeOnce(existing, rolls) ==
  [returned |-> TRUE, code |-> randomCode(rolls[1], 0, <<>>)]

\* generateShortCode(existing), with rolls the values Math.random() yields
\* in the successive attempts.  returned = FALSE: every attempt that is
\* followed collided and the loop is still running.
generateShortCode(existing, rolls) == doWhile(existing, rolls, 1)

(* ------------------------------ inputs -------------------------------- *)

\* values Math.random() takes in one attempt (numerators over RandDenom),
\* in the page
Rolls ==
  { <<0, 0, 0, 0, 0, 0>>,
    <<RandDenom - 1, RandDenom - 1, RandDenom - 1,
      RandDenom - 1, RandDenom - 1, RandDenom - 1>> }

RollSeqs == [1..MaxRolls -> Rolls]

\* values Math.random() takes in one attempt when the generator is run on
\* its own
GenRolls ==
  Rolls \cup { <<1, 1, 1, 1, 1, 1>>, <<0, 52, 104, 2, 54, 106>> }

GenRollSeqs == [1..MaxRolls -> GenRolls]

\* texts typed into the "Enter long URL" field
LongUrlInputs ==
  { <<>>, <<" ">>, <<"a">>, <<" ", "A", ":", "b">> }

\* texts the validity state holds when the form is submitted; the handler
\* takes any string
ValidityInputs ==
  { <<>>, <<"0">>, <<"-", "5">>, <<"a">>, <<"1">>, <<"1", "a">>, <<" ">> }

\* texts typed into the "Enter short code" field
RedirectInputs ==
  { <<>>, <<"a","a","a","a","a","a">>, <<"9","9","9","9","9","9">> }

\* existing-code sets handed to generateShortCode
ExistingInputs ==
  SUBSET { <<"a","a","a","a","a","a">>, <<"9","9","9","9","9","9">>,
           <<"a","A","0","b","B","1">>, <<"a","a","a">>, <<>> }

(* --------------------------- logging middleware ----------------------- *)

\* new Date().toISOString(): the minutes, seconds and milliseconds fields
\* of the text, for an instant within the first hour after the page load
toISOString(t) == << t \div 60000, (t % 60000) \div 1000, t % 1000 >>

\* mutant: logs.unshift in place of logs.push
logUnshift(message, context) ==
  <<[timestamp |-> toISOString(clock),
     message   |-> message,
     context   |-> context]>> \o logs

\* log(message, context): logs.push({timestamp, message, context});
\* the value is the list after the push
log(message, context) ==
  Append(logs, [timestamp |-> toISOString(clock),
                message   |-> message,
                context   |-> context])

\* getLogs(): a copy of the list, [...logs]
getLogs == [i \in 1..Len(logs) |-> logs[i]]

(* ------------------------------- App ---------------------------------- *)

\* History of the user's actions: the number of events handled so far, the
\* handler the last one went to and the texts it was submitted with.
NoEvent ==
  [seq |-> 0, handler |-> "none", longUrl |-> <<>>, validity |-> <<>>, code |-> <<>>]

submitted(handler, typedUrl, typedValidity, code) ==
  [seq      |-> event.seq + 1,
   handler  |-> handler,
   longUrl  |-> typedUrl,
   validity |-> typedValidity,
   code     |-> code]

MsPerMinute == 60 * 1000

\* mutant: the validity is taken as seconds
expiresAtSeconds(now, minutes) == now + minutes * 1000

\* const expiresAt = now + validityMinutes * 60 * 1000
expiresAtOf(now, minutes) == now + minutes * 60 * 1000

\* new Set(shortUrls.map(u => u.shortCode))
existingCodes == { shortUrls[i].shortCode : i \in 1..Len(shortUrls) }

\* mutant: expired records are dropped when a record is added
prependPurging(newShort, list) ==
  <<newShort>> \o SelectSeq(list, LAMBDA u : u.expiresAt >= newShort.createdAt)

\* [newShort, ...shortUrls]
prepend(newShort, list) == <<newShort>> \o list

\* the text s starts with the text p
startsWith(s, p) == Len(p) <= Len(s) /\ SubSeq(s, 1, Len(p)) = p

\* mutant: u.shortCode.startsWith(code) in place of u.shortCode === code
findStartsWith(list, code) ==
  IF \E i \in 1..Len(list) : startsWith(list[i].shortCode, code)
  THEN CHOOSE i \in 1..Len(list) :
         /\ startsWith(list[i].shortCode, code)
         /\ \A j \in 1..(i - 1) : ~startsWith(list[j].shortCode, code)
  ELSE 0

\* shortUrls.find(u => u.shortCode === code): the index of the first record
\* whose code is the given one, 0 when find returns undefined
find(list, code) ==
  IF \E i \in 1..Len(list) : list[i].shortCode = code
  THEN CHOOSE i \in 1..Len(list) :
         /\ list[i].shortCode = code
         /\ \A j \in 1..(i - 1) : list[j].shortCode # code
  ELSE 0

\* mutant: the comparison is reversed
isExpiredReversed(now, found) == now < found.expiresAt

\* mutant: a record expires at expiresAt, not after it
isExpiredAtExpiry(now, found) == now >= found.expiresAt

\* Date.now() > found.expiresAt
isExpired(now, found) == now > found.expiresAt

\* found.clickCount++; setShortUrls([...shortUrls])
visit(list, k) ==
  [i \in 1..Len(list) |->
     IF i = k THEN [list[i] EXCEPT !.clickCount = @ + 1] ELSE list[i]]

NotFoundMessage == << "Short URL not found." >>

ExpiredMessage == << "This short URL has expired." >>

\* `Redirected to: ${found.originalUrl}`
redirectedMessage(found) == << "Redirected to: " >> \o found.originalUrl

Init ==
  /\ longUrl = <<>>
  /\ validity = <<>>
  /\ shortUrls = <<>>
  /\ copied = null
  /\ redirectCode = <<>>
  /\ redirectResult = null
  /\ logs = <<>>
  /\ clock = 0
  /\ copyTimers = {}
  /\ event = NoEvent
  /\ genExisting = {}
  /\ genRolls = <<>>
  /\ genCode = [returned |-> FALSE, code |-> <<>>]

\* The user fills in the two fields of the creation form (their onChange
\* handlers store the texts in longUrl and validity) and submits it.
handleShorten(typedUrl, typedValidity) ==
  /\ Len(logs) < MaxLogs
  /\ event' = submitted("handleShorten", typedUrl, typedValidity, <<>>)
  /\ IF ~Truthy(trim(typedUrl))
     THEN /\ logs' = log("Attempted to shorten empty URL", [longUrl |-> typedUrl])
          /\ longUrl' = typedUrl
          /\ validity' = typedValidity
          /\ UNCHANGED shortUrls
     ELSE IF ~newURL(typedUrl).ok
     THEN /\ logs' = log("Invalid URL entered", [longUrl |-> typedUrl])
          /\ longUrl' = typedUrl
          /\ validity' = typedValidity
          /\ UNCHANGED shortUrls
     ELSE IF validityRejected(typedValidity)
     THEN /\ logs' = log("Invalid validity entered", [validity |-> typedValidity])
          /\ longUrl' = typedUrl
          /\ validity' = typedValidity
          /\ UNCHANGED shortUrls
     ELSE \E rolls \in RollSeqs :
            LET url       == newURL(typedUrl)
                minutes   == validityMinutes(typedValidity).value
                now       == clock
                generated == generateShortCode(existingCodes, rolls)
                newShort  == [shortCode   |-> generated.code,
                              originalUrl |-> url.href,
                              createdAt   |-> now,
                              expiresAt   |-> expiresAtOf(now, minutes),
                              clickCount  |-> 0]
            IN  /\ generated.returned
                /\ shortUrls' = prepend(newShort, shortUrls)
                /\ logs' = log("Shortened new URL",
                               [shortCode       |-> generated.code,
                                originalUrl     |-> url.href,
                                validityMinutes |-> minutes])
                /\ longUrl' = <<>>
                /\ validity' = <<>>
  /\ UNCHANGED <<copied, redirectCode, redirectResult, clock, copyTimers, genVars>>

\* the Copy button of the row of one record
handleCopy(code) ==
  /\ Len(logs) < MaxLogs
  /\ event' = submitted("handleCopy", <<>>, <<>>, code)
  /\ copied' = code
  /\ logs' = log("Copied short URL", [shortCode |-> code])
  /\ copyTimers' = copyTimers \cup {clock + CopiedTimeout}
  /\ UNCHANGED <<longUrl, validity, shortUrls, redirectCode, redirectResult,
                 clock, genVars>>

\* setTimeout(() => setCopied(null), 1500)
copiedTimeout ==
  /\ \E t \in copyTimers :
       /\ clock >= t
       /\ copyTimers' = copyTimers \ {t}
  /\ copied' = null
  /\ UNCHANGED <<longUrl, validity, shortUrls, redirectCode, redirectResult,
                 logs, clock, event, genVars>>

\* The user types a code into the simulation form (its onChange handler
\* stores the text in redirectCode) and submits it.
handleRedirect(typedCode) ==
  /\ Len(logs) < MaxLogs
  /\ event' = submitted("handleRedirect", <<>>, <<>>, typedCode)
  /\ redirectCode' = typedCode
  /\ LET k == find(shortUrls, typedCode)
     IN  IF k = 0
         THEN /\ redirectResult' = NotFoundMessage
              /\ logs' = log("Redirection failed: code not found",
                             [shortCode |-> typedCode])
              /\ UNCHANGED shortUrls
         ELSE IF isExpired(clock, shortUrls[k])
         THEN /\ redirectResult' = ExpiredMessage
              /\ logs' = log("Redirection failed: code expired",
                             [shortCode |-> typedCode])
              /\ UNCHANGED shortUrls
         ELSE /\ shortUrls' = visit(shortUrls, k)
              /\ redirectResult' = redirectedMessage(shortUrls[k])
              /\ logs' = log("Short URL visited",
                             [shortCode   |-> typedCode,
                              originalUrl |-> shortUrls[k].originalUrl])
  /\ UNCHANGED <<longUrl, validity, copied, clock, copyTimers, genVars>>

\* a minute passes
tick ==
  /\ clock \div MsPerMinute < MaxMinutes
  /\ clock' = clock + MsPerMinute
  /\ UNCHANGED <<longUrl, validity, shortUrls, copied, redirectCode,
                 redirectResult, logs, copyTimers, event, genVars>>

Next ==
  \/ \E typedUrl \in LongUrlInputs, typedValidity \in ValidityInputs :
       handleShorten(typedUrl, typedValidity)
  \/ \E code \in existingCodes : handleCopy(code)
  \/ copiedTimeout
  \/ \E typedCode \in RedirectInputs : handleRedirect(typedCode)
  \/ tick

Spec == Init /\ [][Next]_vars

(* ------------------ generateShortCode on its own ---------------------- *)

GenInit ==
  /\ longUrl = <<>>
  /\ validity = <<>>
  /\ shortUrls = <<>>
  /\ copied = null
  /\ redirectCode = <<>>
  /\ redirectResult = null
  /\ logs = <<>>
  /\ clock = 0
  /\ copyTimers = {}
  /\ event = NoEvent
  /\ genExisting \in ExistingInputs
  /\ genRolls \in GenRollSeqs
  /\ genCode = [returned |-> FALSE, code |-> <<>>]

\* const shortCode = generateShortCode(existingCodes)
callGenerate ==
  /\ ~genCode.returned
  /\ genCode' = generateShortCode(genExisting, genRolls)
  /\ UNCHANGED <<genExisting, genRolls, appVars>>

GenNext == callGenerate

GenSpec == GenInit /\ [][GenNext]_vars

(* ------------------------------ claims -------------------------------- *)

lastLog == logs[Len(logs)]

\* the characters a-z, A-Z and 0-9
Alnum ==
  { "a","b","c","d","e","f","g","h","i","j","k","l","m","n","o","p","q","r",
    "s","t","u","v","w","x","y","z","A","B","C","D","E","F","G","H","I","J",
    "K","L","M","N","O","P","Q","R","S","T","U","V","W","X","Y","Z","0","1",
    "2","3","4","5","6","7","8","9" }

\* the text is empty or consists of white space only
BlankText(t) == \A i \in 1..Len(t) : t[i] = " "

\* the text, spaces around it aside, starts with a scheme: a letter, then
\* letters, digits, "+", "-" or ".", then ":"
AbsoluteUrlText(t) ==
  \E a \in 1..Len(t), k \in 1..Len(t) :
    /\ a < k
    /\ \A j \in 1..(a - 1) : t[j] = " "
    /\ t[a] \in Alnum /\ t[a] \notin DigitSet
    /\ \A j \in (a + 1)..(k - 1) : t[j] \in Alnum \cup {"+", "-", "."}
    /\ t[k] = ":"

\* the text is a decimal numeral: an optional "-" and one or more digits
NumericText(t) ==
  LET d == IF t # <<>> /\ t[1] = "-" THEN Tail(t) ELSE t
  IN  d # <<>> /\ \A i \in 1..Len(d) : d[i] \in DigitSet

NegativeNumberText(t) ==
  NumericText(t) /\ t[1] = "-" /\ \E i \in 2..Len(t) : t[i] # "0"

NonNumericText(t) == t # <<>> /\ ~NumericText(t)

PositiveNumberText(t) ==
  NumericText(t) /\ t[1] # "-" /\ \E i \in 1..Len(t) : t[i] # "0"

\* the text s occurs in the text m
Contains(m, s) ==
  \E i \in 1..(Len(m) + 1) :
    i + Len(s) - 1 <= Len(m) /\ SubSeq(m, i, i + Len(s) - 1) = s

\* the step handles a submission of the creation form
ShortenStep == event'.seq = event.seq + 1 /\ event'.handler = "handleShorten"

\* the step handles a submission of the simulation form
RedirectStep == event'.seq = event.seq + 1 /\ event'.handler = "handleRedirect"

\* the last event handled was a submission of the creation form
Shortened == event.handler = "handleShorten"

\* the last event handled was a submission of the simulation form
Redirected == event.handler = "handleRedirect"

\* the record redirectCode names, when there is one
Stored(c) == { i \in 1..Len(shortUrls) : shortUrls[i].shortCode = c }

\* C1: no two records of the collection have the same shortCode
C1_UniqueShortCodes ==
  \A i, j \in 1..Len(shortUrls) :
    i # j => shortUrls[i].shortCode # shortUrls[j].shortCode

C1_Witness ==
  /\ Len(shortUrls) = 2
  /\ Shortened
  /\ event.seq = 2

\* C2: a code generateShortCode returns has 6 characters, all of them in
\* [a-zA-Z0-9], and is not a member of the set it was given
C2_GeneratedCode ==
  genCode.returned =>
    /\ Len(genCode.code) = 6
    /\ \A i \in 1..Len(genCode.code) : genCode.code[i] \in Alnum
    /\ genCode.code \notin genExisting

\* the first attempt collided with the set and a later one was returned
C2_Witness ==
  /\ genCode.returned
  /\ randomCode(genRolls[1], 0, <<>>) \in genExisting
  /\ Cardinality(genExisting) >= 2

\* C3: a shorten operation whose URL text is empty, white space only or not
\* a well-formed absolute URL leaves the record collection unchanged,
\* whatever the validity text is
C3_BadUrlLeavesRecords ==
  [][(ShortenStep /\ (BlankText(event'.longUrl) \/ ~AbsoluteUrlText(event'.longUrl)))
       => shortUrls' = shortUrls]_vars

C3_Witness ==
  /\ Shortened
  /\ event.seq = 2
  /\ ~BlankText(event.longUrl) /\ ~AbsoluteUrlText(event.longUrl)
  /\ event.validity = <<"1">>
  /\ Len(shortUrls) = 1

\* C4: with a valid URL, a validity text of "0", of a negative number or of
\* a non-numeric string is rejected and no record is added; a blank validity
\* text succeeds with a validity of 30 minutes
C4_ValidityTexts ==
  [][(/\ ShortenStep
      /\ ~BlankText(event'.longUrl)
      /\ AbsoluteUrlText(event'.longUrl)) =>
        /\ (\/ event'.validity = <<"0">>
            \/ NegativeNumberText(event'.validity)
            \/ NonNumericText(event'.validity))
             => shortUrls' = shortUrls
        /\ event'.validity = <<>> =>
             /\ Len(shortUrls') = Len(shortUrls) + 1
             /\ shortUrls'[1].expiresAt = clock + 30 * 60000]_vars

\* C5: a successful shorten operation at time T with validity v minutes puts
\* exactly one new record at the front, with createdAt = T,
\* expiresAt = T + v * 60000 and clickCount = 0, and leaves the earlier
\* records unchanged and in their order behind it
C5_SuccessfulShorten ==
  [][ShortenStep =>
       /\ (/\ ~BlankText(event'.longUrl) /\ AbsoluteUrlText(event'.longUrl)
           /\ (event'.validity = <<>> \/ PositiveNumberText(event'.validity)))
            => shortUrls' # shortUrls
       /\ shortUrls' # shortUrls =>
            /\ Len(shortUrls') = Len(shortUrls) + 1
            /\ shortUrls'[1].createdAt = clock
            /\ shortUrls'[1].expiresAt =
                 clock + validityMinutes(event'.validity).value * 60000
            /\ shortUrls'[1].clickCount = 0
            /\ Tail(shortUrls') = shortUrls]_vars

C5_Witness ==
  /\ Shortened
  /\ Len(shortUrls) = 2
  /\ event.validity = <<"1">>
  /\ shortUrls[1].createdAt > 0
  /\ shortUrls[1].expiresAt = shortUrls[1].createdAt + 60000
  /\ shortUrls[2].createdAt = 0

\* C6: simulating a redirect with a code that matches no stored shortCode
\* sets the result message to "Short URL not found." and leaves every
\* record unchanged
C6_UnknownCode ==
  [][(RedirectStep /\ Stored(event'.code) = {})
       => /\ redirectResult' = << "Short URL not found." >>
          /\ shortUrls' = shortUrls]_vars

C6_Witness ==
  /\ Redirected
  /\ Len(shortUrls) = 1
  /\ Stored(event.code) = {}
  /\ redirectResult = << "Short URL not found." >>

\* C7: simulating a redirect on a stored code strictly after the record's
\* expiresAt sets the result message to "This short URL has expired." and
\* changes no clickCount
C7_ExpiredCode ==
  [][(/\ RedirectStep
      /\ \E i \in Stored(event'.code) : clock > shortUrls[i].expiresAt)
       => /\ redirectResult' = << "This short URL has expired." >>
          /\ Len(shortUrls') = Len(shortUrls)
          /\ \A i \in 1..Len(shortUrls) :
               shortUrls'[i].clickCount = shortUrls[i].clickCount]_vars

C7_Witness ==
  /\ Redirected
  /\ redirectResult = << "This short URL has expired." >>
  /\ \E i \in Stored(event.code) :
       /\ clock > shortUrls[i].expiresAt
       /\ shortUrls[i].clickCount = 0

\* C8: simulating a redirect on a stored code at a time now <= expiresAt
\* adds exactly 1 to that record's clickCount, sets the result message to
\* one that contains the record's originalUrl, and changes nothing else in
\* the collection
C8_ValidCode ==
  [][\A i \in Stored(event'.code) :
       (RedirectStep /\ clock <= shortUrls[i].expiresAt)
         => /\ shortUrls' =
                 [shortUrls EXCEPT ![i].clickCount = shortUrls[i].clickCount + 1]
            /\ Contains(redirectResult', shortUrls[i].originalUrl)]_vars

\* the redirect happened at the very instant the record expires
C8_Witness ==
  /\ Redirected
  /\ \E i \in Stored(event.code) :
       /\ shortUrls[i].clickCount = 1
       /\ clock = shortUrls[i].expiresAt
       /\ lastLog.timestamp = toISOString(clock)
       /\ Contains(redirectResult, shortUrls[i].originalUrl)

\* C9: every shorten or simulate-redirect operation appends exactly one
\* entry at the end of the log and leaves the earlier entries unchanged;
\* getLogs returns all entries in the order they were appended
C9_LogAppendOnly ==
  /\ [](getLogs = logs)
  /\ [][(ShortenStep \/ RedirectStep)
         => /\ Len(logs') = Len(logs) + 1
            /\ SubSeq(logs', 1, Len(logs)) = logs]_vars

C9_Witness ==
  /\ Redirected
  /\ Len(getLogs) = 2
  /\ getLogs[1].message = "Shortened new URL"
  /\ getLogs[2].timestamp # getLogs[1].timestamp

\* C10: a record once created is never removed, its shortCode, originalUrl,
\* createdAt and expiresAt never change and its clickCount never decreases,
\* expired records included
C10_RecordsKept ==
  [][/\ Len(shortUrls') >= Len(shortUrls)
     /\ \A i \in 1..Len(shortUrls) :
          LET old == shortUrls[i]
              new == shortUrls'[i + Len(shortUrls') - Len(shortUrls)]
          IN  /\ new.shortCode = old.shortCode
              /\ new.originalUrl = old.originalUrl
              /\ new.createdAt = old.createdAt
              /\ new.expiresAt = old.expiresAt
              /\ new.clickCount >= old.clickCount]_vars

\* an operation was carried out after a record had expired
C10_Witness ==
  /\ event.seq = 2
  /\ \E i \in 1..Len(shortUrls) :
       /\ lastLog.timestamp = toISOString(clock)
       /\ clock > shortUrls[i].expiresAt

====
